---- MODULE Spec2Model ----
(***************************************************************************)
(* Model of shortest_path(graph, source_index) of bfs_shortest_path.py:    *)
(* a layered breadth-first relaxation (_visit_neighbors) alternating with  *)
(* a correction pass (_fix_distances) over the shared locals check,        *)
(* check_next, distances, fix, new_processed and processed.                *)
(*                                                                         *)
(* One action is one iteration of a `while len(s) > 0: s.pop()` loop (the  *)
(* whole for-loop over the popped node's out-neighbours), or the exit of   *)
(* such a loop.  set.pop() returns an arbitrary element, so the popped     *)
(* node is chosen nondeterministically.                                    *)
(***************************************************************************)
EXTENDS Integers, FiniteSets, Sequences, TLC

\* ---- bounds of the model ------------------------------------------------
NumNodes == 4
MaxEdges == 4
MaxWeight == 1

Nodes == 0 .. (NumNodes - 1)
Weights == (0 - MaxWeight) .. MaxWeight
\* Distances of a run that keeps improving round a negative cycle are
\* unbounded below; the pops are cut off under this value.  Without a
\* negative cycle every distance is the weight of a walk and so is at least
\* -(NumNodes - 1) * MaxWeight, which is above the cut-off.
MinDist == 0 - (NumNodes * MaxWeight) - 2

\* The graphs are closed under renaming of the nodes, so the source is fixed.
Sources == {0}

\* ---- the input graphs ---------------------------------------------------
Pairs == Nodes \X Nodes

Extend(SS) == UNION {{T \cup {p} : p \in Pairs \ T} : T \in SS}

RECURSIVE EdgeSetsOfSize(_)
EdgeSetsOfSize(k) == IF k = 0 THEN {{}} ELSE Extend(EdgeSetsOfSize(k - 1))

EdgeSets == UNION {EdgeSetsOfSize(k) : k \in 0 .. MaxEdges}

\* A graph is a function from its directed edges <<tail, head>> to weights.
Graphs == UNION {[E -> Weights] : E \in EdgeSets}

\* The nodes that the edges of E reach from the nodes of S.
RECURSIVE ReachIn(_, _)
ReachIn(E, S) ==
    LET heads == {e[2] : e \in {x \in E : x[1] \in S}}
    IN  IF heads \subseteq S THEN S ELSE ReachIn(E, S \cup heads)

ExtendLive(SS) ==
    UNION {{T \cup {p} : p \in {q \in Pairs \ T : q[1] \in ReachIn(T, Sources)}} :
           T \in SS}

RECURSIVE LiveEdgeSetsOfSize(_)
LiveEdgeSetsOfSize(k) ==
    IF k = 0 THEN {{}} ELSE ExtendLive(LiveEdgeSetsOfSize(k - 1))

\* The graphs whose every edge leaves a node reachable from the source: the
\* computation calls neighbors() only on nodes it has given a distance, so
\* it reads no other edge.
LiveGraphs ==
    UNION {[E -> Weights] : E \in UNION {LiveEdgeSetsOfSize(k) : k \in 0 .. MaxEdges}}

VARIABLES graph, source_index, check, check_next, distances, fix,
          new_processed, processed, pc

vars == <<graph, source_index, check, check_next, distances, fix,
          new_processed, processed, pc>>

\* graph.neighbors(node_index, "out")
neighbors(g, n) == {v \in Nodes : <<n, v>> \in DOMAIN g}

\* edges[graph.get_eid(node_index, neighbor_index)]["weight"]
weight(g, n, v) == g[<<n, v>>]

\* distances.get(n) is not None
Has(d, n) == n \in DOMAIN d

\* The state at line 94, after the locals are created and the source is
\* put in check, for a graph of the family G.
InitOn(G) ==
    /\ graph \in G
    /\ source_index \in Sources
    /\ check = {source_index}
    /\ check_next = {}
    /\ distances = [n \in {source_index} |-> 0]
    /\ fix = {}
    /\ new_processed = {}
    /\ processed = {}
    /\ pc = "visit0"

Init == InitOn(Graphs)

\* Discovered that tests `neighbor_index not in processed` for the missing
\* distance.
DiscoveredUnsettled(g, d, n) == {v \in neighbors(g, n) : v \notin processed}

\* Discovered without the test `distances.get(neighbor_index) is None`.
DiscoveredAll(g, d, n) == neighbors(g, n)

\* The neighbours of n that the for-loop of _visit_neighbors gives a first
\* distance (lines 73-76).
Discovered(g, d, n) == {v \in neighbors(g, n) : ~Has(d, v)}

\* Improved with `<=` for `<`.
ImprovedOrEqual(g, d, n) ==
    {v \in neighbors(g, n) : Has(d, v) /\ d[n] + weight(g, n, v) <= d[v]}

\* Improved with `>` for `<`.
ImprovedFlipped(g, d, n) ==
    {v \in neighbors(g, n) : Has(d, v) /\ d[n] + weight(g, n, v) > d[v]}

\* The neighbours of n whose existing distance the for-loop lowers
\* (lines 55 and 79); base is distances[n] read before the loop.
Improved(g, d, n) ==
    {v \in neighbors(g, n) : Has(d, v) /\ d[n] + weight(g, n, v) < d[v]}

\* VisitDistances that does not store the distance of a discovered node.
VisitDistancesNoInsert(g, d, n) ==
    [v \in DOMAIN d |->
        IF v \in Improved(g, d, n) THEN d[n] + weight(g, n, v) ELSE d[v]]

\* VisitDistances that gives a discovered node the edge weight alone.
VisitDistancesNoBase(g, d, n) ==
    [v \in DOMAIN d \cup Discovered(g, d, n) |->
        IF v \in Discovered(g, d, n) THEN weight(g, n, v)
        ELSE IF v \in Improved(g, d, n) THEN d[n] + weight(g, n, v)
        ELSE d[v]]

\* The distance table after the for-loop of _visit_neighbors for node n.
VisitDistances(g, d, n) ==
    [v \in DOMAIN d \cup Discovered(g, d, n) |->
        IF v \in Discovered(g, d, n) \/ v \in Improved(g, d, n)
        THEN d[n] + weight(g, n, v)
        ELSE d[v]]

\* FixDistances without the test `distance < distances[neighbor_index]`.
FixDistancesNoCompare(g, d, n) ==
    [v \in DOMAIN d |->
        IF v \in neighbors(g, n) THEN d[n] + weight(g, n, v) ELSE d[v]]

\* The distance table after the for-loop of _fix_distances for node n.
FixDistances(g, d, n) ==
    [v \in DOMAIN d |->
        IF v \in Improved(g, d, n) THEN d[n] + weight(g, n, v) ELSE d[v]]

\* ToFix without the test `neighbor_index in processed`.
ToFixAny(g, d, n, done) == Improved(g, d, n)

\* `if neighbor_index in processed: fix.add(neighbor_index)`
ToFix(g, d, n, done) == Improved(g, d, n) \cap done

InRange(d) == \A v \in DOMAIN d : d[v] >= MinDist

\* One iteration of `while len(check) > 0` in _visit_neighbors.
VisitPop ==
    /\ pc \in {"visit0", "visit"}
    /\ check # {}
    /\ \E n \in check :
        /\ InRange(VisitDistances(graph, distances, n))
        /\ check' = check \ {n}
        /\ new_processed' = new_processed \cup {n}
        /\ distances' = VisitDistances(graph, distances, n)
        /\ check_next' = check_next \cup Discovered(graph, distances, n)
        /\ fix' = fix \cup ToFix(graph, distances, n, processed)
    /\ UNCHANGED <<graph, source_index, processed, pc>>

\* VisitReturn without the swap of check and check_next.
VisitReturnNoSwap ==
    /\ pc \in {"visit0", "visit"}
    /\ check = {}
    /\ processed' = processed \cup new_processed
    /\ new_processed' = {}
    /\ pc' = IF pc = "visit0" THEN "loop" ELSE "fix"
    /\ UNCHANGED <<graph, source_index, check, check_next, distances, fix>>

\* VisitReturn without `processed.update(new_processed)`.
VisitReturnNoMerge ==
    /\ pc \in {"visit0", "visit"}
    /\ check = {}
    /\ new_processed' = {}
    /\ check' = check_next
    /\ check_next' = check
    /\ pc' = IF pc = "visit0" THEN "loop" ELSE "fix"
    /\ UNCHANGED <<graph, source_index, distances, fix, processed>>

\* Exit of the loop of _visit_neighbors, and the swap that follows the call.
VisitReturn ==
    /\ pc \in {"visit0", "visit"}
    /\ check = {}
    /\ processed' = processed \cup new_processed
    /\ new_processed' = {}
    /\ check' = check_next
    /\ check_next' = check
    /\ pc' = IF pc = "visit0" THEN "loop" ELSE "fix"
    /\ UNCHANGED <<graph, source_index, distances, fix>>

\* One iteration of `while len(fix) > 0` in _fix_distances.
FixPop ==
    /\ pc = "fix"
    /\ fix # {}
    /\ \E n \in fix :
        /\ InRange(FixDistances(graph, distances, n))
        /\ distances' = FixDistances(graph, distances, n)
        /\ fix' = (fix \ {n}) \cup ToFix(graph, distances, n, processed)
    /\ UNCHANGED <<graph, source_index, check, check_next, new_processed,
                   processed, pc>>

\* Exit of the loop of _fix_distances.
FixReturn ==
    /\ pc = "fix"
    /\ fix = {}
    /\ pc' = "loop"
    /\ UNCHANGED <<graph, source_index, check, check_next, distances, fix,
                   new_processed, processed>>

\* `while len(fix) > 0 or len(check) > 0` holds: next round.
LoopEnter ==
    /\ pc = "loop"
    /\ (fix # {} \/ check # {})
    /\ pc' = "visit"
    /\ UNCHANGED <<graph, source_index, check, check_next, distances, fix,
                   new_processed, processed>>

\* The loop condition fails: `return distances`.
Return ==
    /\ pc = "loop"
    /\ fix = {}
    /\ check = {}
    /\ pc' = "done"
    /\ UNCHANGED <<graph, source_index, check, check_next, distances, fix,
                   new_processed, processed>>

Next ==
    \/ VisitPop
    \/ VisitReturn
    \/ FixPop
    \/ FixReturn
    \/ LoopEnter
    \/ Return

Spec == Init /\ [][Next]_vars

\* The program is sequential: a step that can be taken is taken.
FairSpec == Spec /\ WF_vars(Next)

\* ---- the reference of the differential test ------------------------------
Min(S) == CHOOSE x \in S : \A y \in S : x <= y

\* The nodes one directed edge away from a node of S.
Successors(g, S) == {v \in Nodes : \E u \in S : <<u, v>> \in DOMAIN g}

\* One Bellman-Ford round on a table kept as a set of <<node, distance>>:
\* every edge whose tail has a distance is relaxed and the least distance of
\* each node is kept.
BellmanFordRound(g, D) ==
    LET cand == D \cup UNION {{<<e[2], p[2] + g[e]>> : p \in {q \in D : q[1] = e[1]}} :
                              e \in DOMAIN g}
    IN  {p \in cand : \A q \in cand : q[1] = p[1] => p[2] <= q[2]}

RECURSIVE BellmanFord(_, _, _)
BellmanFord(g, s, rounds) ==
    IF rounds = 0 THEN {<<s, 0>>}
    ELSE BellmanFordRound(g, BellmanFord(g, s, rounds - 1))

ReferenceTable == BellmanFord(graph, source_index, NumNodes - 1)

\* graph.shortest_paths(source, None, "weight")[0], as a mapping of the nodes
\* it gives a finite distance.
Reference ==
    LET D == ReferenceTable
    IN  [v \in {p[1] : p \in D} |-> (CHOOSE p \in D : p[1] = v)[2]]

\* The reference raises when a negative cycle can be reached from the
\* source: one more round still improves some distance.
NegCycleReachable ==
    LET D == ReferenceTable
    IN  BellmanFordRound(graph, D) # D

RECURSIVE ReachableFrom(_, _)
ReachableFrom(g, S) ==
    IF Successors(g, S) \subseteq S THEN S
    ELSE ReachableFrom(g, S \cup Successors(g, S))

Reachable == ReachableFrom(graph, {source_index})

HasNegativeEdge == \E e \in DOMAIN graph : graph[e] < 0

AllNonNegative == \A e \in DOMAIN graph : graph[e] >= 0

TypeOK ==
    /\ pc \in {"visit0", "visit", "fix", "loop", "done"}
    /\ check \subseteq Nodes
    /\ check_next \subseteq Nodes
    /\ fix \subseteq Nodes
    /\ new_processed \subseteq Nodes
    /\ processed \subseteq Nodes
    /\ DOMAIN distances \subseteq Nodes
    /\ \A n \in DOMAIN distances : distances[n] \in Int

\* ---- C1 ------------------------------------------------------------------
\* C1: on a graph with negative edges and no negative cycle reachable from
\* the source, whatever the pop order, the returned mapping is the
\* Bellman-Ford distance of every reachable node.
C1_NegativeEdgesMatchReference ==
    (pc = "done" /\ HasNegativeEdge /\ ~NegCycleReachable)
        => distances = Reference

\* ---- C2 ------------------------------------------------------------------
\* C2: on a graph whose weights are all nonnegative, whatever the pop order,
\* the returned mapping equals the reference shortest-path distances.
C2_NonNegativeMatchReference ==
    (pc = "done" /\ AllNonNegative) => distances = Reference

NoNegCycleInit == InitOn(LiveGraphs) /\ ~NegCycleReachable

NoNegCycleSpec == NoNegCycleInit /\ [][Next]_vars /\ WF_vars(Next)

\* C4: on a graph with no negative cycle reachable from the source every
\* execution terminates: it reaches the return with check and fix empty.
C4_Terminates == <>(pc = "done" /\ check = {} /\ fix = {})

\* A return after every node was expanded, on a graph with a negative edge
\* on a cycle and no negative cycle.
C4_Witness ==
    /\ pc = "done"
    /\ processed = Nodes
    /\ \E u \in Nodes, v \in Nodes :
        /\ u # v
        /\ <<u, v>> \in DOMAIN graph
        /\ <<v, u>> \in DOMAIN graph
        /\ graph[<<u, v>>] < 0

\* ---- C5 ------------------------------------------------------------------
\* C5: on a graph with a negative cycle reachable from the source the
\* computation ends in a distinct negative-cycle error outcome ("raised"),
\* neither running forever nor returning a mapping.  No statement of
\* shortest_path raises, so no action sets pc to "raised".
C5_NegativeCycleRaises ==
    NegCycleReachable => <>(pc = "raised")

\* ---- C6 ------------------------------------------------------------------
\* The run that always pops the smallest node of a set.
RECURSIVE MinVisitNeighbors(_, _, _, _, _, _)
MinVisitNeighbors(g, d, chk, nxt, fx, done) ==
    IF chk = {} THEN [distances |-> d, check_next |-> nxt, fix |-> fx]
    ELSE LET n == Min(chk)
         IN  MinVisitNeighbors(g, VisitDistances(g, d, n), chk \ {n},
                               nxt \cup Discovered(g, d, n),
                               fx \cup ToFix(g, d, n, done), done)

RECURSIVE MinFixDistances(_, _, _, _)
MinFixDistances(g, d, fx, done) ==
    IF fx = {} THEN d
    ELSE LET n == Min(fx)
         IN  MinFixDistances(g, FixDistances(g, d, n),
                             (fx \ {n}) \cup ToFix(g, d, n, done), done)

RECURSIVE MinLoop(_, _, _, _, _)
MinLoop(g, d, chk, fx, done) ==
    IF fx = {} /\ chk = {} THEN d
    ELSE LET r == MinVisitNeighbors(g, d, chk, {}, fx, done)
         IN  MinLoop(g, MinFixDistances(g, r.distances, r.fix, done \cup chk),
                     r.check_next, {}, done \cup chk)

MinShortestPath(g, s) ==
    LET r == MinVisitNeighbors(g, [n \in {s} |-> 0], {s}, {}, {}, {})
    IN  MinLoop(g, r.distances, r.check_next, r.fix, {s})

\* C6: for a graph with no reachable negative cycle the returned mapping
\* does not depend on the pop order: every run returns what the run that
\* pops the smallest node first returns.
C6_OrderIndependent ==
    (pc = "done" /\ ~NegCycleReachable)
        => distances = MinShortestPath(graph, source_index)

\* ---- C7 ------------------------------------------------------------------
\* C7: on a graph with no negative cycle reachable from the source, the
\* source's entry of the distance table is 0 in every state.
C7_SourceIsZero ==
    (source_index \in DOMAIN distances /\ distances[source_index] = 0)
        \/ NegCycleReachable

\* A negative edge into the source has been relaxed by an expanded node.
C7_Witness ==
    /\ \E u \in processed \ {source_index} :
        /\ <<u, source_index>> \in DOMAIN graph
        /\ graph[<<u, source_index>>] < 0
    /\ distances[source_index] = 0
    /\ ~NegCycleReachable

\* ---- C8 ------------------------------------------------------------------
\* C8: (on a graph with no negative cycle reachable from the source, the
\* standing assumption of the data model) whenever a step lowers the
\* distance of a node that is not in processed, the node's out-edges have
\* not been relaxed yet: after the step it still waits in check or
\* check_next.
C8_UnsettledLoweredStillInFrontier ==
    [][\/ \A v \in DOMAIN distances :
            (distances'[v] < distances[v] /\ v \notin processed)
                => v \in check' \cup check_next'
       \/ NegCycleReachable]_vars

\* ---- C9 ------------------------------------------------------------------
\* Every edge out of a settled node is relaxed.
SettledFixedPoint ==
    \A e \in DOMAIN graph :
        e[1] \in processed =>
            /\ e[2] \in DOMAIN distances
            /\ distances[e[2]] <= distances[e[1]] + graph[e]

\* C9: (on a graph with no negative cycle reachable from the source) each
\* time _fix_distances finishes, every edge (u, v) with u settled has
\* distance[v] <= distance[u] + w.
C9_FixedPointAfterFix ==
    [][(pc = "fix" /\ pc' = "loop") => (SettledFixedPoint' \/ NegCycleReachable)]_vars

\* ---- C10 -----------------------------------------------------------------
\* C10: on a graph with a negative cycle reachable from the source,
\* shortest_path never returns.
C10_NegativeCycleNeverReturns ==
    pc = "done" => ~NegCycleReachable

\* ---- C11 -----------------------------------------------------------------
\* C11: in every state every value of the distance table is an upper bound
\* on the true shortest distance of its node (where that distance exists:
\* no negative cycle is reachable from the source).
C11_UpperBound ==
    LET D == ReferenceTable
    IN  \/ \A v \in DOMAIN distances :
              \E p \in D : p[1] = v /\ p[2] <= distances[v]
        \/ BellmanFordRound(graph, D) # D

\* An expansion has lowered the distance of a settled node along a negative
\* edge, down to its true distance and not below.
C11_Witness ==
    /\ fix # {}
    /\ HasNegativeEdge
    /\ \E v \in fix : distances[v] = Reference[v]
    /\ ~NegCycleReachable

\* ---- C12 -----------------------------------------------------------------
\* C12: across every step the distance table is monotone: no entry is
\* removed and no entry is given a larger value.
C12_Monotone ==
    [][\A v \in DOMAIN distances :
          v \in DOMAIN distances' /\ distances'[v] <= distances[v]]_vars

\* The existing entry of a settled node has been rewritten with the lower
\* distance through an expanded node.
C12_Witness ==
    /\ \E v \in fix : \E u \in processed \cup new_processed :
          /\ <<u, v>> \in DOMAIN graph
          /\ distances[v] = distances[u] + graph[<<u, v>>]
          /\ distances[v] < 0
    /\ ~NegCycleReachable

Expanded == processed \cup new_processed

\* C14: a node is popped from the frontier at most once (a popped node was
\* not expanded before and stays expanded for ever), a settled node is never
\* put into check or check_next, and at the return the expanded nodes are
\* exactly the reachable ones.
C14_ExpandedOnce ==
    [][/\ \A n \in check \ check' : n \notin Expanded /\ n \in Expanded'
       /\ Expanded \subseteq Expanded'
       /\ processed' \cap (check' \cup check_next') = {}
       /\ pc' = "done" => (processed' = Reachable /\ new_processed' = {})]_vars

\* A return after the expansion of a node with an edge back to a node that
\* was expanded before it.
C14_Witness ==
    /\ pc = "done"
    /\ processed = Reachable
    /\ \E u \in Reachable \ {source_index} : <<u, source_index>> \in DOMAIN graph
    /\ \E u \in Reachable, v \in Reachable \ {source_index} :
          u # v /\ u # source_index /\ <<u, v>> \in DOMAIN graph

\* ---- C15 -----------------------------------------------------------------
\* C15: fix is empty after Round 0 and each time the loop condition of the
\* driver is evaluated, and shortest_path returns only with check and fix
\* both empty.
C15_FixEmptyAtLoopTest ==
    /\ pc \in {"loop", "done"} => fix = {}
    /\ pc = "done" => check = {}

\* The loop condition is evaluated after a correction: a neighbour v of the
\* source holds the distance through a node u of a later layer, which was
\* expanded when v was already settled.
C15_Witness ==
    /\ pc = "loop"
    /\ fix = {}
    /\ \E v \in processed \ {source_index} : \E u \in processed \ {source_index, v} :
          /\ <<source_index, v>> \in DOMAIN graph
          /\ <<source_index, u>> \notin DOMAIN graph
          /\ <<u, v>> \in DOMAIN graph
          /\ distances[v] = distances[u] + graph[<<u, v>>]
          /\ distances[v] < graph[<<source_index, v>>]
    /\ ~NegCycleReachable

\* ---- C16 -----------------------------------------------------------------
\* C16: an Expansion starts with check_next empty, each pop adds to
\* check_next exactly the nodes that receive their first distance, and the
\* one swap at the end of the Expansion leaves them in check and check_next
\* empty.
C16_SwapCadence ==
    [][/\ (pc = "loop" /\ pc' = "visit") => check_next = {}
       /\ (pc \in {"visit0", "visit"} /\ pc' = pc) =>
              check_next' \ check_next = DOMAIN distances' \ DOMAIN distances
       /\ (pc \in {"visit0", "visit"} /\ pc' # pc) =>
              /\ check' = check_next
              /\ check_next' = {}
              /\ check' = DOMAIN distances' \ processed']_vars

\* Just after the swap of a later round: check holds the two nodes the
\* Expansion discovered.
C16_Witness ==
    /\ pc = "fix"
    /\ Cardinality(check) >= 2
    /\ check_next = {}
    /\ Cardinality(processed) >= 2
    /\ check = DOMAIN distances \ processed

\* ---- C17 -----------------------------------------------------------------
\* C17: in every state check and check_next are disjoint and neither holds
\* a settled node.
C17_FrontiersDisjoint ==
    /\ check \cap check_next = {}
    /\ (check \cup check_next) \cap processed = {}

\* In the middle of an Expansion with both frontiers non-empty and a settled
\* node, after the expansion of a node with an edge to a node still in
\* check.
C17_Witness ==
    /\ check # {}
    /\ check_next # {}
    /\ processed # {}
    /\ \E u \in new_processed : \E v \in check : <<u, v>> \in DOMAIN graph

\* ---- C18 -----------------------------------------------------------------
\* C18: in every state every node of check, check_next, fix, new_processed
\* and processed has an entry in the distance table, and fix is a subset of
\* processed, so distances[node_index] after a pop never misses its key.
C18_WorkSetsHaveDistances ==
    /\ (check \cup check_next \cup fix \cup new_processed \cup processed)
          \subseteq DOMAIN distances
    /\ fix \subseteq processed

\* _fix_distances is about to pop a node and read its distance.
C18_Witness ==
    /\ pc = "fix"
    /\ fix # {}
    /\ fix \subseteq processed \cap DOMAIN distances
    /\ ~NegCycleReachable
====
